---- MODULE Spec2Model ----
(***************************************************************************)
(* Model of main.py: a configuration language compiled to TOML.            *)
(*                                                                         *)
(* Text is a sequence of atoms.  An atom is a piece of text that no rule   *)
(* of the program looks inside: a lowercase word, a punctuation mark, the  *)
(* literal prefix 0b / 0B, one binary or decimal digit, a blank, a         *)
(* newline, a comment, or a fixed fragment of a message.  Concatenation of *)
(* text is concatenation of sequences.                                     *)
(***************************************************************************)
EXTENDS Integers, Sequences, FiniteSets, TLC

VARIABLES pc, text, tree, walk, stack, constants, errors, result,
          stdout, stderr, exitcode

vars == <<pc, text, tree, walk, stack, constants, errors, result,
          stdout, stderr, exitcode>>

----------------------------------------------------------------------------
(* Bounds of the model *)

\* total number of statements and table entries of a generated program
MaxNodes == 3

\* constant names and keys of the generated programs
Names == {"a", "b"}

\* names referred to by the generated programs
RefNames == {"a"}

\* binary literals of the generated programs: 0b10
Lits == {<<"0b", "1", "0">>}

\* greatest number of digits of a binary literal, where all literals are tried
MaxDigits == 5

\* total number of statements and table entries of a program, where all
\* placings of commas are tried
MaxCommaNodes == 2

----------------------------------------------------------------------------
(* Grammar (main.py 7-33) *)

\* IDENT: /[a-z]+/ -- the lowercase words of the input alphabet
Words == Names \cup {"x", "y", "k", "port", "db", "host", "missing", "table"}

\* %ignore WS, %ignore COMMENT
Ignored == {" ", "\n", "--[[c]]"}

\* the anonymous terminals of the grammar
Punct == {":", ";", "=", ",", "(", ")", "[", "]", ".(", ")."}

BinPrefix == {"0b", "0B"}
BinDigit == {"0", "1"}

RECURSIVE DigitRun(_, _)
\* the longest run of [01] atoms of t that starts at index i
DigitRun(t, i) ==
    IF i <= Len(t) /\ t[i] \in BinDigit
    THEN <<t[i]>> \o DigitRun(t, i + 1)
    ELSE <<>>

RECURSIVE Scan(_, _)
\* The terminals of t from index i on.  BIN_NUMBER is /0[bB][01]+/; a piece
\* of text that starts no terminal gives the token BAD.
Scan(t, i) ==
    IF i > Len(t) THEN <<>>
    ELSE IF t[i] \in Ignored THEN Scan(t, i + 1)
    ELSE IF t[i] \in BinPrefix
         THEN LET ds == DigitRun(t, i + 1) IN
              IF ds = <<>>
              THEN <<[type |-> "BAD", value |-> t[i]]>>
              ELSE <<[type |-> "BIN_NUMBER", chars |-> <<t[i]>> \o ds]>>
                   \o Scan(t, i + 1 + Len(ds))
    ELSE IF t[i] \in Words
         THEN <<[type |-> "WORD", value |-> t[i]]>> \o Scan(t, i + 1)
    ELSE IF t[i] \in Punct
         THEN <<[type |-> "PUNCT", value |-> t[i]]>> \o Scan(t, i + 1)
    ELSE <<[type |-> "BAD", value |-> t[i]]>>

\* token i of ts is the anonymous terminal p
IsPunct(ts, i, p) ==
    i <= Len(ts) /\ ts[i].type = "PUNCT" /\ ts[i].value = p

\* token i of ts matches IDENT
IsIdent(ts, i) == i <= Len(ts) /\ ts[i].type = "WORD"

\* token i of ts is the keyword "table"
IsTable(ts, i) ==
    i <= Len(ts) /\ ts[i].type = "WORD" /\ ts[i].value = "table"

Tree(data, children) == [data |-> data, children |-> children]
Token(value) == [type |-> "IDENT", value |-> value]

\* an entry may end with a semicolon as well as with a comma
EntryEndSemi(ts, i) ==
    IF IsPunct(ts, i, ",") \/ IsPunct(ts, i, ";") THEN i + 1 ELSE i

\* ","? after the value of a dict_entry: the index of the token that follows
EntryEnd(ts, i) == IF IsPunct(ts, i, ",") THEN i + 1 ELSE i

Fail == [ok |-> FALSE]
Ok(t, next) == [ok |-> TRUE, tree |-> t, next |-> next]

RECURSIVE ParseValue(_, _), ParseEntries(_, _, _)

\* dict_entry* from token i on, after the entries acc: stops at the first
\* token that is no IDENT.  dict_entry: IDENT "=" value ","?
ParseEntries(ts, i, acc) ==
    IF ~IsIdent(ts, i) THEN Ok(acc, i)
    ELSE IF ~IsPunct(ts, i + 1, "=") THEN Fail
    ELSE LET v == ParseValue(ts, i + 2) IN
         IF ~v.ok THEN Fail
         ELSE LET e == Tree("dict_item", <<Token(ts[i].value), v.tree>>)
              IN  ParseEntries(ts, EntryEnd(ts, v.next), Append(acc, e))

\* value: number | dict | const_ref
ParseValue(ts, i) ==
    IF i > Len(ts) THEN Fail
    ELSE IF ts[i].type = "BIN_NUMBER"
         THEN Ok(Tree("number", <<ts[i]>>), i + 1)
    ELSE IF IsPunct(ts, i, ".(")
         THEN IF IsIdent(ts, i + 1) /\ IsPunct(ts, i + 2, ").")
              THEN Ok(Tree("use_const", <<Token(ts[i + 1].value)>>), i + 3)
              ELSE Fail
    ELSE IF IsTable(ts, i)
         THEN IF IsPunct(ts, i + 1, "(") /\ IsPunct(ts, i + 2, "[")
              THEN LET es == ParseEntries(ts, i + 3, <<>>) IN
                   IF es.ok /\ IsPunct(ts, es.next, "]")
                            /\ IsPunct(ts, es.next + 1, ")")
                   THEN Ok(Tree("make_dict", es.tree), es.next + 2)
                   ELSE Fail
              ELSE Fail
    ELSE Fail

RECURSIVE ParseStatements(_, _, _)
\* statement* from token i on; const_decl: IDENT ":" value ";"
ParseStatements(ts, i, acc) ==
    IF i > Len(ts) THEN Ok(acc, i)
    ELSE IF ~IsIdent(ts, i) THEN Fail
    ELSE IF IsPunct(ts, i + 1, ":")
         THEN LET v == ParseValue(ts, i + 2) IN
              IF v.ok /\ IsPunct(ts, v.next, ";")
              THEN ParseStatements(ts, v.next + 1,
                      Append(acc, Tree("declare_const",
                                       <<Token(ts[i].value), v.tree>>)))
              ELSE Fail
    ELSE IF IsPunct(ts, i + 1, "=")
         THEN LET v == ParseValue(ts, i + 2) IN
              IF ~v.ok THEN Fail
              ELSE LET e == Tree("dict_item", <<Token(ts[i].value), v.tree>>)
                   IN  ParseStatements(ts, EntryEnd(ts, v.next), Append(acc, e))
    ELSE Fail

\* parser.parse(text): the tree of start, or a failure (UnexpectedInput)
Parse(t) ==
    LET r == ParseStatements(Scan(t, 1), 1, <<>>) IN
    IF r.ok THEN [ok |-> TRUE, tree |-> Tree("start", r.tree)] ELSE Fail

----------------------------------------------------------------------------
(* Python values of the transformer *)

None == [kind |-> "none"]
PyInt(n) == [kind |-> "int", n |-> n]
PyStr(s) == [kind |-> "str", s |-> s]
Tuple(k, v) == [kind |-> "tuple", k |-> k, v |-> v]
\* a dict is the sequence of its items in insertion order, keys unique
Dict(items) == [kind |-> "dict", items |-> items]

IsTree(c) == "data" \in DOMAIN c

Keys(items) == {items[j].k : j \in 1..Len(items)}

\* d[k] = v that moves a present key to the end
DictSetMoveLast(items, k, v) ==
    Append(SelectSeq(items, LAMBDA e : e.k # k), [k |-> k, v |-> v])

\* d[k] = v on the items of a dict: a new key is added last, a present key
\* keeps its place and takes the new value
DictSet(items, k, v) ==
    IF k \in Keys(items)
    THEN [j \in 1..Len(items) |->
             IF items[j].k = k THEN [k |-> k, v |-> v] ELSE items[j]]
    ELSE Append(items, [k |-> k, v |-> v])

\* d[k], for k a key of d
DictGet(items, k) ==
    LET j == CHOOSE j \in 1..Len(items) : items[j].k = k IN items[j].v

RECURSIVE BinValueReversed(_, _)
\* the value of the first n digits of ds read with the lowest digit first
BinValueReversed(ds, n) ==
    IF n = 0 THEN 0
    ELSE BinValueReversed(ds, n - 1) + (IF ds[n] = "1" THEN 2 ^ (n - 1) ELSE 0)

RECURSIVE BinValue(_, _)
\* the base-2 value of the first n digits of ds
BinValue(ds, n) ==
    IF n = 0 THEN 0
    ELSE 2 * BinValue(ds, n - 1) + (IF ds[n] = "1" THEN 1 ELSE 0)

\* int(s, 2) for s the text of a BIN_NUMBER: the prefix 0b / 0B is dropped
IntBase2(chars) ==
    LET ds == Tail(chars) IN BinValue(ds, Len(ds))

\* the messages appended to self.errors
Redefined(name) == <<"Constant '", name, "' redefined">>
Undefined(name) == <<"Undefined constant '", name, "'">>
Duplicate(k) == <<"Duplicate key '", k, "' in table">>

----------------------------------------------------------------------------
(* Transformer.transform: callbacks bottom-up, children left to right *)

RECURSIVE PostOrder(_)
\* the subtrees of t in the order in which their callbacks are called
PostOrder(t) ==
    LET RECURSIVE Kids(_)
        Kids(j) ==
            IF j > Len(t.children) THEN <<>>
            ELSE (IF IsTree(t.children[j])
                  THEN PostOrder(t.children[j]) ELSE <<>>) \o Kids(j + 1)
    IN  Kids(1) \o <<t>>

\* number of children of t that are subtrees
NTrees(t) == Cardinality({j \in 1..Len(t.children) : IsTree(t.children[j])})

\* The arguments of t's callback: a token child is replaced by the result of
\* its token callback (IDENT returns token.value; BIN_NUMBER has none), and
\* the j-th subtree child by the j-th of the transformed values vs.
Items(t, vs) ==
    [j \in 1..Len(t.children) |->
        LET c == t.children[j] IN
        IF IsTree(c)
        THEN vs[Cardinality({h \in 1..j : IsTree(t.children[h])})]
        ELSE IF c.type = "IDENT" THEN PyStr(c.value) ELSE c]

\* the top n values of the stack, oldest first
Top(st, n) == SubSeq(st, Len(st) - n + 1, Len(st))
Pop(st, n) == SubSeq(st, 1, Len(st) - n)

----------------------------------------------------------------------------
(* ConfigTransformer callbacks (main.py 37-80) *)

\* number(items): int(items[0], 2)
number(items) == PyInt(IntBase2(items[1].chars))

\* a declaration that keeps the first value of a name
declare_const_first(consts, errs, name, value) ==
    [constants |-> IF name.s \in {consts[j].k : j \in 1..Len(consts)}
                   THEN consts ELSE Append(consts, [k |-> name.s, v |-> value]),
     errors |-> IF name.s \in {consts[j].k : j \in 1..Len(consts)}
                THEN Append(errs, <<"Constant '", name.s, "' redefined">>) ELSE errs,
     value |-> [kind |-> "none"]]

\* a declaration that returns the pair (name, value)
declare_const_pair(consts, errs, name, value) ==
    [constants |-> IF name.s \in {consts[j].k : j \in 1..Len(consts)}
                   THEN [j \in 1..Len(consts) |->
                           IF consts[j].k = name.s
                           THEN [k |-> name.s, v |-> value] ELSE consts[j]]
                   ELSE Append(consts, [k |-> name.s, v |-> value]),
     errors |-> IF name.s \in {consts[j].k : j \in 1..Len(consts)}
                THEN Append(errs, <<"Constant '", name.s, "' redefined">>) ELSE errs,
     value |-> [kind |-> "tuple", k |-> name.s, v |-> value]]

\* a declaration that binds nothing when the value is None
declare_const_skip_none(consts, errs, name, value) ==
    [constants |-> IF value = [kind |-> "none"] THEN consts
                   ELSE IF name.s \in {consts[j].k : j \in 1..Len(consts)}
                   THEN [j \in 1..Len(consts) |->
                           IF consts[j].k = name.s
                           THEN [k |-> name.s, v |-> value] ELSE consts[j]]
                   ELSE Append(consts, [k |-> name.s, v |-> value]),
     errors |-> IF name.s \in {consts[j].k : j \in 1..Len(consts)}
                THEN Append(errs, <<"Constant '", name.s, "' redefined">>) ELSE errs,
     value |-> [kind |-> "none"]]

\* declare_const(name, value): the constants and the errors after the call
declare_const(consts, errs, name, value) ==
    [constants |-> DictSet(consts, name.s, value),
     errors |-> IF name.s \in Keys(consts)
                THEN Append(errs, Redefined(name.s)) ELSE errs,
     value |-> None]

\* a reference that yields None for an unknown name and records nothing
use_const_silent(consts, errs, name) ==
    IF name.s \notin {consts[j].k : j \in 1..Len(consts)}
    THEN [value |-> [kind |-> "none"], errors |-> errs]
    ELSE [value |-> (LET j == CHOOSE j \in 1..Len(consts) : consts[j].k = name.s
                     IN consts[j].v),
          errors |-> errs]

\* use_const(name): the value returned and the errors after the call
use_const(consts, errs, name) ==
    IF name.s \notin Keys(consts)
    THEN [value |-> None, errors |-> Append(errs, Undefined(name.s))]
    ELSE [value |-> DictGet(consts, name.s), errors |-> errs]

\* dict_item(key, value)
dict_item(key, value) == Tuple(key.s, value)

RECURSIVE make_dict(_, _, _)
\* make_dict(*items) after its first n items: the dict built and the errors
make_dict(errs, items, n) ==
    IF n = 0 THEN [result |-> <<>>, errors |-> errs]
    ELSE LET r == make_dict(errs, items, n - 1)
             k == items[n].k
         IN  [result |-> DictSet(r.result, k, items[n].v),
              errors |-> IF k \in Keys(r.result)
                         THEN Append(r.errors, Duplicate(k)) ELSE r.errors]

RECURSIVE start(_, _)
\* start(items) after its first n items: only the tuples are entered
start(items, n) ==
    IF n = 0 THEN <<>>
    ELSE LET r == start(items, n - 1) IN
         IF items[n].kind = "tuple"
         THEN DictSet(r, items[n].k, items[n].v) ELSE r

----------------------------------------------------------------------------
(* to_toml (main.py 84-95) *)

DecDigit == <<"0", "1", "2", "3", "4", "5", "6", "7", "8", "9">>

RECURSIVE Dec(_)
\* str(n) for an int n >= 0
Dec(n) == IF n < 10 THEN <<DecDigit[n + 1]>>
          ELSE Dec(n \div 10) \o <<DecDigit[(n % 10) + 1]>>

\* f"{value}" for a value that is no dict
Format(v) == IF v.kind = "int" THEN Dec(v.n) ELSE <<"None">>

\* no indentation
PadNone(indent) == <<>>

RECURSIVE Pad(_)
\* "  " * indent
Pad(indent) == IF indent <= 0 THEN <<>> ELSE <<"  ">> \o Pad(indent - 1)

RECURSIVE Join(_)
\* "\n".join(lines)
Join(lines) ==
    IF lines = <<>> THEN <<>>
    ELSE IF Len(lines) = 1 THEN lines[1]
    ELSE lines[1] \o <<"\n">> \o Join(Tail(lines))

RECURSIVE to_toml(_, _), TomlLines(_, _, _)

\* the list lines of to_toml(data, indent) after the first n items of data
TomlLines(items, indent, n) ==
    IF n = 0 THEN <<>>
    ELSE LET key == items[n].k
             value == items[n].v
         IN  TomlLines(items, indent, n - 1) \o
             (IF value.kind = "dict"
              THEN << Pad(indent) \o <<"[", key, "]">>,
                      to_toml(value.items, indent + 1) >>
              ELSE << Pad(indent) \o <<key, " = ">> \o Format(value) >>)

to_toml(items, indent) == Join(TomlLines(items, indent, Len(items)))

----------------------------------------------------------------------------
(* Inputs: the texts of the generated programs, and some written by hand *)

\* the texts of the values with n entries in all, given the texts of the
\* sequences of entries by size (T[m + 1]: those with m entries in all)
GenValues(T, n) ==
    (IF n = 0
     THEN Lits \cup {<<".(", c, ").">> : c \in RefNames}
     ELSE {})
    \cup {<<"table", "(", "[">> \o es \o <<"]", ")">> : es \in T[n + 1]}

RECURSIVE EntryLevel(_, _, _)
\* the sequences of entries with n entries in all whose first has at most s
EntryLevel(T, n, s) ==
    IF s = 0 THEN {}
    ELSE { <<k, "=">> \o v \o r :
             k \in Names, v \in GenValues(T, s - 1), r \in T[n - s + 1] }
         \cup EntryLevel(T, n, s - 1)

RECURSIVE GenEntries(_, _)
\* <<E0, ..., En>>: Em the sequences of entries with m entries in all,
\* nested ones included (written with no blanks and no commas)
GenEntries(T, n) ==
    IF Len(T) > n THEN T
    ELSE GenEntries(Append(T, EntryLevel(T, Len(T), Len(T))), n)

EntryTable == GenEntries(<< {<<>>} >>, MaxNodes)

RECURSIVE StmtLevel(_, _, _)
\* the programs with n statements and entries in all whose first statement
\* has at most s
StmtLevel(S, n, s) ==
    IF s = 0 THEN {}
    ELSE { <<k>> \o (IF d = "declare_const"
                     THEN <<":">> \o v \o <<";">> ELSE <<"=">> \o v) \o r :
             d \in {"declare_const", "dict_item"},
             k \in Names, v \in GenValues(EntryTable, s - 1),
             r \in S[n - s + 1] }
         \cup StmtLevel(S, n, s - 1)

RECURSIVE GenStatements(_, _)
\* <<S0, ..., Sn>>: Sm the programs with m statements and entries in all
GenStatements(S, n) ==
    IF Len(S) > n THEN S
    ELSE GenStatements(Append(S, StmtLevel(S, Len(S), Len(S))), n)

StmtTable == GenStatements(<< {<<>>} >>, MaxNodes)

RECURSIVE ProgramsUpTo(_)
ProgramsUpTo(n) ==
    IF n = 0 THEN StmtTable[1] ELSE StmtTable[n + 1] \cup ProgramsUpTo(n - 1)

\* the programs with at most MaxNodes statements and entries
Programs == ProgramsUpTo(MaxNodes)

\* a: 0b11; port = 0b1000; db = table([ host = 0b1; ]) ;
ExampleOk ==
    << "a", ":", " ", "0b", "1", "1", ";", " ",
       "port", " ", "=", " ", "0b", "1", "0", "0", "0", ";", " ",
       "db", " ", "=", " ", "table", "(", "[", " ",
       "host", " ", "=", " ", "0b", "1", ";", " ", "]", ")", " ", ";" >>

\* the same without the semicolons that follow entries
ExampleOkPlain ==
    << "a", ":", " ", "0b", "1", "1", ";", " ",
       "port", " ", "=", " ", "0b", "1", "0", "0", "0", " ",
       "db", " ", "=", " ", "table", "(", "[", " ",
       "host", " ", "=", " ", "0b", "1", " ", "]", ")" >>

\* x = .(missing).;
ExampleFail == << "x", " ", "=", " ", ".(", "missing", ").", ";" >>

\* x = .(missing).
ExampleFailPlain == << "x", " ", "=", " ", ".(", "missing", ")." >>

\* k = table([ a = 0b1, b = 0b10, a = 0b11 ])
ExampleDup ==
    << "k", " ", "=", " ", "table", "(", "[", " ",
       "a", " ", "=", " ", "0b", "1", ",", " ",
       "b", " ", "=", " ", "0B", "1", "0", ",", "\n",
       "--[[c]]", "a", " ", "=", " ", "0b", "1", "1", " ", "]", ")" >>

\* a: 0b1; a: 0b10; x = .(missing). y = 0b
\* (a redefinition and an undefined reference, then a literal with no digit)
ExampleBadLiteral ==
    << "a", ":", " ", "0b", "1", ";", " ", "a", ":", " ", "0b", "1", "0", ";",
       " ", "x", " ", "=", " ", ".(", "missing", ").", " ",
       "y", " ", "=", " ", "0b" >>

\* k = table([ a = 0b1 a = 0b1 ]) y: 0b1
\* (a repeated key, then a declaration that the text ends before its ";")
ExampleCutShort ==
    << "k", " ", "=", " ", "table", "(", "[", " ", "a", " ", "=", " ", "0b", "1",
       " ", "a", " ", "=", " ", "0b", "1", " ", "]", ")", " ",
       "y", ":", " ", "0b", "1" >>

\* k = table([ a = 0b1 a = 0b1 b = .(x). ])
\* (a repeated key, then an entry whose value is an undefined reference)
ExampleOrder ==
    << "k", " ", "=", " ", "table", "(", "[", " ", "a", " ", "=", " ", "0b", "1",
       " ", "a", " ", "=", " ", "0b", "1", " ",
       "b", " ", "=", " ", ".(", "x", ").", " ", "]", ")" >>

\* x: .(y).; k = .(x). x: 0b1;
\* (a constant declared with an undefined reference, referred to, redeclared)
ExampleUnresolved ==
    << "x", ":", " ", ".(", "y", ").", ";", " ",
       "k", " ", "=", " ", ".(", "x", ").", " ",
       "x", ":", " ", "0b", "1", ";" >>

Examples ==
    {ExampleOk, ExampleOkPlain, ExampleFail, ExampleFailPlain, ExampleDup,
     ExampleBadLiteral, ExampleCutShort, ExampleOrder, ExampleUnresolved}

Inputs == Programs \cup Examples

----------------------------------------------------------------------------
(* main (main.py 99-126) *)

NoTree == Tree("", <<>>)

Init ==
    /\ pc = "argv"
    /\ text = <<>>
    /\ tree = NoTree
    /\ walk = <<>>
    /\ stack = <<>>
    /\ constants = <<>>
    /\ errors = <<>>
    /\ result = None
    /\ stdout = <<>>
    /\ stderr = <<>>
    /\ exitcode = -1

\* sys.exit(1) after the line msg on standard error
Exit1(msg) ==
    /\ stderr' = stderr \o msg \o <<"\n">>
    /\ exitcode' = 1
    /\ pc' = "exit"

\* len(sys.argv) != 2
Usage ==
    /\ pc = "argv"
    /\ Exit1(<<"Usage: python main.py <config_file>">>)
    /\ UNCHANGED <<text, tree, walk, stack, constants, errors, result, stdout>>

\* open or read raises
FileError ==
    /\ pc = "argv"
    /\ Exit1(<<"File error: ", "<e>">>)
    /\ UNCHANGED <<text, tree, walk, stack, constants, errors, result, stdout>>

\* text = f.read()
ReadFile ==
    /\ pc = "argv"
    /\ \E t \in Inputs : text' = t
    /\ pc' = "parse"
    /\ UNCHANGED <<tree, walk, stack, constants, errors, result, stdout, stderr, exitcode>>

\* tree = parser.parse(text)
ParseOk ==
    /\ pc = "parse"
    /\ Parse(text).ok
    /\ tree' = Parse(text).tree
    /\ walk' = PostOrder(Parse(text).tree)
    /\ pc' = "transform"
    /\ UNCHANGED <<text, stack, constants, errors, result, stdout, stderr, exitcode>>

\* a syntax error after which the empty program is resolved
SyntaxErrorResolve ==
    /\ pc = "parse"
    /\ ~Parse(text).ok
    /\ stderr' = stderr \o <<"Syntax error: ", "<e>", "\n">>
    /\ tree' = [data |-> "start", children |-> <<>>]
    /\ walk' = <<[data |-> "start", children |-> <<>>]>>
    /\ pc' = "transform"
    /\ UNCHANGED <<text, stack, constants, errors, result, stdout, exitcode>>

\* except UnexpectedInput
SyntaxError ==
    /\ pc = "parse"
    /\ ~Parse(text).ok
    /\ Exit1(<<"Syntax error: ", "<e>">>)
    /\ UNCHANGED <<text, tree, walk, stack, constants, errors, result, stdout>>

\* the subtree whose callback is called next
Node == Head(walk)

\* the arguments of that call
Args == Items(Node, Top(stack, NTrees(Node)))

\* the call returns v
Return(v) ==
    /\ stack' = Append(Pop(stack, NTrees(Node)), v)
    /\ walk' = Tail(walk)

CallNumber ==
    /\ pc = "transform" /\ Node.data = "number"
    /\ Return(number(Args))
    /\ UNCHANGED <<pc, text, tree, constants, errors, result, stdout, stderr, exitcode>>

CallUseConst ==
    /\ pc = "transform" /\ Node.data = "use_const"
    /\ LET r == use_const(constants, errors, Args[1]) IN
       /\ errors' = r.errors
       /\ Return(r.value)
    /\ UNCHANGED <<pc, text, tree, constants, result, stdout, stderr, exitcode>>

CallDeclareConst ==
    /\ pc = "transform" /\ Node.data = "declare_const"
    /\ LET r == declare_const(constants, errors, Args[1], Args[2]) IN
       /\ constants' = r.constants
       /\ errors' = r.errors
       /\ Return(r.value)
    /\ UNCHANGED <<pc, text, tree, result, stdout, stderr, exitcode>>

CallDictItem ==
    /\ pc = "transform" /\ Node.data = "dict_item"
    /\ Return(dict_item(Args[1], Args[2]))
    /\ UNCHANGED <<pc, text, tree, constants, errors, result, stdout, stderr, exitcode>>

CallMakeDict ==
    /\ pc = "transform" /\ Node.data = "make_dict"
    /\ LET r == make_dict(errors, Args, Len(Args)) IN
       /\ errors' = r.errors
       /\ Return(Dict(r.result))
    /\ UNCHANGED <<pc, text, tree, constants, result, stdout, stderr, exitcode>>

\* result = transformer.transform(tree) returns
CallStart ==
    /\ pc = "transform" /\ Node.data = "start"
    /\ result' = Dict(start(Args, Len(Args)))
    /\ stack' = Pop(stack, NTrees(Node))
    /\ walk' = Tail(walk)
    /\ pc' = "check"
    /\ UNCHANGED <<text, tree, constants, errors, stdout, stderr, exitcode>>

RECURSIVE TransformWalk(_, _)
\* the state of the transformer after the callbacks of the subtrees w, in
\* order, from the state s (value stack, constants, errors, result)
TransformWalk(w, s) ==
    IF w = <<>> THEN s
    ELSE LET t == Head(w)
             args == Items(t, Top(s.stack, NTrees(t)))
             rest == Pop(s.stack, NTrees(t))
         IN  TransformWalk(Tail(w),
               CASE t.data = "number" ->
                      [s EXCEPT !.stack = Append(rest, number(args))]
                 [] t.data = "use_const" ->
                      LET r == use_const(s.constants, s.errors, args[1]) IN
                      [s EXCEPT !.stack = Append(rest, r.value),
                                !.errors = r.errors]
                 [] t.data = "declare_const" ->
                      LET r == declare_const(s.constants, s.errors,
                                             args[1], args[2]) IN
                      [s EXCEPT !.stack = Append(rest, r.value),
                                !.constants = r.constants,
                                !.errors = r.errors]
                 [] t.data = "dict_item" ->
                      [s EXCEPT !.stack = Append(rest, dict_item(args[1], args[2]))]
                 [] t.data = "make_dict" ->
                      LET r == make_dict(s.errors, args, Len(args)) IN
                      [s EXCEPT !.stack = Append(rest, Dict(r.result)),
                                !.errors = r.errors]
                 [] t.data = "start" ->
                      [s EXCEPT !.stack = rest,
                                !.result = Dict(start(args, Len(args)))])

\* transformer.transform(tree) on a fresh transformer: the result, and the
\* transformer's errors after the call
Transform(t) ==
    LET s == TransformWalk(PostOrder(t),
                 [stack |-> <<>>, constants |-> <<>>, errors |-> <<>>,
                  result |-> None])
    IN  [result |-> s.result, errors |-> s.errors]

RECURSIVE ErrorLines(_)
\* the lines printed for the errors errs
ErrorLines(errs) ==
    IF errs = <<>> THEN <<>>
    ELSE <<"Error: ">> \o Head(errs) \o <<"\n">> \o ErrorLines(Tail(errs))

\* if transformer.errors: print each, sys.exit(1)
ReportErrors ==
    /\ pc = "check"
    /\ errors # <<>>
    /\ stderr' = stderr \o ErrorLines(errors)
    /\ exitcode' = 1
    /\ pc' = "exit"
    /\ UNCHANGED <<text, tree, walk, stack, constants, errors, result, stdout>>

\* print(to_toml(result)), whatever the errors
PrintTomlUnguarded ==
    /\ pc = "check"
    /\ stdout' = stdout \o to_toml(result.items, 0) \o <<"\n">>
    /\ exitcode' = 0
    /\ pc' = "exit"
    /\ UNCHANGED <<text, tree, walk, stack, constants, errors, result, stderr>>

\* print(to_toml(result))
PrintToml ==
    /\ pc = "check"
    /\ errors = <<>>
    /\ stdout' = stdout \o to_toml(result.items, 0) \o <<"\n">>
    /\ exitcode' = 0
    /\ pc' = "exit"
    /\ UNCHANGED <<text, tree, walk, stack, constants, errors, result, stderr>>

Next ==
    \/ Usage
    \/ FileError
    \/ ReadFile
    \/ ParseOk
    \/ SyntaxError
    \/ CallNumber
    \/ CallUseConst
    \/ CallDeclareConst
    \/ CallDictItem
    \/ CallMakeDict
    \/ CallStart
    \/ ReportErrors
    \/ PrintToml

Spec == Init /\ [][Next]_vars

----------------------------------------------------------------------------
(* The runs on the programs with one binary literal, all literals tried *)

\* the digit strings of the literals with at most MaxDigits digits
DigitStrings == UNION {[1..n -> BinDigit] : n \in 1..MaxDigits}

\* x = L,  x: L; y = .(x).  and  x = table([y = L])  for each literal L
LiteralPrograms ==
    UNION { { <<"x", "=">> \o l,
              <<"x", ":">> \o l \o <<";", "y", "=", ".(", "x", ").">>,
              <<"x", "=", "table", "(", "[", "y", "=">> \o l \o <<"]", ")">> } :
            l \in {<<p>> \o ds : p \in BinPrefix, ds \in DigitStrings} }

\* the file has been read and holds one of these programs
InitNumber ==
    /\ pc = "parse"
    /\ text \in LiteralPrograms
    /\ tree = NoTree
    /\ walk = <<>>
    /\ stack = <<>>
    /\ constants = <<>>
    /\ errors = <<>>
    /\ result = None
    /\ stdout = <<>>
    /\ stderr = <<>>
    /\ exitcode = -1

NextNumber ==
    \/ ParseOk
    \/ CallNumber
    \/ CallUseConst
    \/ CallDeclareConst
    \/ CallDictItem
    \/ CallMakeDict
    \/ CallStart
    \/ PrintToml

SpecNumber == InitNumber /\ [][NextNumber]_vars

----------------------------------------------------------------------------
(* The runs on the generated programs with commas after entries *)

\* The places of a program text (one with no blanks and no comments) at
\* which the value of an entry ends: a value ends with the last digit of a
\* literal, with ")." or with ")", and the value of a declaration, not that
\* of an entry, is followed by ";".
EntryEnds(t) ==
    {p \in 1..Len(t) :
        /\ t[p] \in BinDigit \cup {")", ")."}
        /\ p < Len(t) => t[p + 1] \notin BinDigit \cup {";"}}

RECURSIVE WithCommas(_, _, _)
\* the text t from place j on, with a comma after each of the places S
WithCommas(t, S, j) ==
    IF j > Len(t) THEN <<>>
    ELSE <<t[j]>> \o (IF j \in S THEN <<",">> ELSE <<>>) \o WithCommas(t, S, j + 1)

\* the programs with at most MaxCommaNodes statements and entries, with a
\* comma after any of their entries
CommaPrograms ==
    UNION { {WithCommas(b, S, 1) : S \in SUBSET EntryEnds(b)} :
            b \in ProgramsUpTo(MaxCommaNodes) }

\* the file has been read and holds one of these programs
InitComma ==
    /\ pc = "parse"
    /\ text \in CommaPrograms
    /\ tree = NoTree
    /\ walk = <<>>
    /\ stack = <<>>
    /\ constants = <<>>
    /\ errors = <<>>
    /\ result = None
    /\ stdout = <<>>
    /\ stderr = <<>>
    /\ exitcode = -1

NextComma ==
    \/ ParseOk
    \/ CallNumber
    \/ CallUseConst
    \/ CallDeclareConst
    \/ CallDictItem
    \/ CallMakeDict
    \/ CallStart
    \/ ReportErrors
    \/ PrintToml

SpecComma == InitComma /\ [][NextComma]_vars

----------------------------------------------------------------------------
(* What the program says, read off the parse tree (used by the properties) *)

\* the transformer has run on a parsed program, or is running
Resolving == tree # NoTree /\ pc \in {"transform", "check", "exit"}

\* the transformer has returned
Resolved == tree # NoTree /\ pc \in {"check", "exit"}

\* the callbacks of the parsed program, in calling order
PO == PostOrder(tree)

Stmts == tree.children
NameOf(t) == t.children[1].value
ValueOf(t) == t.children[2]

\* the words of the input
Idents == {text[j] : j \in 1..Len(text)} \cap Words

Count(m, errs) == Cardinality({j \in 1..Len(errs) : errs[j] = m})

RECURSIVE StmtEnds(_)
\* <<e1, ..., ei>>: ej the position in PO of the callback of statement j
StmtEnds(i) ==
    IF i = 0 THEN <<>>
    ELSE LET e == StmtEnds(i - 1) IN
         Append(e, (IF i = 1 THEN 0 ELSE e[i - 1]) + Len(PostOrder(Stmts[i])))

\* the statement that the callback at position p belongs to, given the
\* positions ends of the statements' callbacks
StmtOf(ends, p) == 1 + Cardinality({i \in 1..Len(ends) : ends[i] < p})

\* statement j declares the constant n
Declares(j, n) == Stmts[j].data = "declare_const" /\ NameOf(Stmts[j]) = n

\* a declaration of n stands before statement i
DeclaredBefore(n, i) == \E j \in 1..(i - 1) : Declares(j, n)

Absent == [kind |-> "absent"]

RECURSIVE BitsValue(_)
\* the number that the binary digits ds write
BitsValue(ds) ==
    IF ds = <<>> THEN 0
    ELSE (IF Head(ds) = "1" THEN 2 ^ (Len(ds) - 1) ELSE 0) + BitsValue(Tail(ds))

RECURSIVE ExpValue(_, _)
\* The value that the value expression v stands for when the constants are
\* env: a table holds each key once, at the place of its first entry and
\* with the value of its last.
ExpValue(v, env) ==
    CASE v.data = "number" -> PyInt(BitsValue(Tail(v.children[1].chars)))
      [] v.data = "use_const" ->
            IF env[NameOf(v)] = Absent THEN None ELSE env[NameOf(v)]
      [] v.data = "make_dict" ->
            LET es == v.children
                First(j) == \A h \in 1..(j - 1) : NameOf(es[h]) # NameOf(es[j])
                Last(k) == CHOOSE j \in 1..Len(es) :
                              /\ NameOf(es[j]) = k
                              /\ \A h \in (j + 1)..Len(es) : NameOf(es[h]) # k
                RECURSIVE From(_)
                From(j) ==
                    IF j > Len(es) THEN <<>>
                    ELSE (IF First(j)
                          THEN <<[k |-> NameOf(es[j]),
                                  v |-> ExpValue(ValueOf(es[Last(NameOf(es[j]))]), env)]>>
                          ELSE <<>>) \o From(j + 1)
            IN  Dict(From(1))

RECURSIVE ExpEnv(_)
\* the constants after the first i statements, as a function of the name
ExpEnv(i) ==
    IF i = 0 THEN [n \in Words |-> Absent]
    ELSE LET env == ExpEnv(i - 1) IN
         IF Stmts[i].data = "declare_const"
         THEN [env EXCEPT ![NameOf(Stmts[i])] = ExpValue(ValueOf(Stmts[i]), env)]
         ELSE env

\* how often the key k is repeated among the entries es
Repeats(es, k) ==
    LET c == Cardinality({j \in 1..Len(es) : NameOf(es[j]) = k}) IN
    IF c > 0 THEN c - 1 ELSE 0

\* the top-level entries, as a sequence
TopEntries == SelectSeq(Stmts, LAMBDA t : t.data = "dict_item")

RECURSIVE NestedRepeats(_, _, _)
\* the repeats of k in the nested tables among the first p callbacks of po
NestedRepeats(po, p, k) ==
    IF p = 0 THEN 0
    ELSE NestedRepeats(po, p - 1, k)
         + (IF po[p].data = "make_dict" THEN Repeats(po[p].children, k) ELSE 0)

----------------------------------------------------------------------------
(* Properties *)

\* C1: once the program is resolved, every key has one "Duplicate key"
\* diagnostic per repeat of the key in a table, the root table of the
\* top-level entries and the nested tables alike.
C1_DuplicatePerRepeat ==
    Resolved =>
        \A po \in {PO} : \A k \in Idents :
            Count(Duplicate(k), errors)
                = Repeats(TopEntries, k) + NestedRepeats(po, Len(po), k)

\* C1, nested tables alone: one diagnostic per repeat in a table([...])
C1_NestedOnly ==
    Resolved =>
        \A po \in {PO} : \A k \in Idents :
            Count(Duplicate(k), errors) = NestedRepeats(po, Len(po), k)

\* C2: at each point of the pass the "Undefined constant" diagnostics are
\* those of the references met so far whose name no earlier statement
\* declares, and a reference just resolved has yielded the value of the
\* latest earlier declaration of its name, or None when there is none.
C2_NoHoisting ==
    Resolving =>
        \A po \in {PO} : \A ends \in {StmtEnds(Len(Stmts))} :
        LET done == Len(po) - Len(walk) IN
        /\ \A n \in Idents :
             Count(Undefined(n), errors)
               = Cardinality({p \in 1..done :
                     /\ po[p].data = "use_const" /\ NameOf(po[p]) = n
                     /\ ~DeclaredBefore(n, StmtOf(ends, p))})
        /\ (done >= 1 /\ po[done].data = "use_const") =>
             LET n == NameOf(po[done])
                 i == StmtOf(ends, done)
             IN  stack[Len(stack)] =
                    IF DeclaredBefore(n, i) THEN ExpEnv(i - 1)[n] ELSE None

\* a reference inside a nested table to a constant declared only by a later
\* statement has been flagged
C2_Witness ==
    /\ Resolved
    /\ \A po \in {PO} : \A ends \in {StmtEnds(Len(Stmts))} :
       \E p \in 1..Len(po) : \E q \in 1..Len(po) :
          /\ po[p].data = "use_const" /\ po[q].data = "make_dict"
          /\ p < q /\ StmtOf(ends, p) = StmtOf(ends, q)
          /\ \E j \in (StmtOf(ends, p) + 1)..Len(Stmts) : Declares(j, NameOf(po[p]))
          /\ Count(Undefined(NameOf(po[p])), errors) = 1

\* the positions of the declarations of n among the first done callbacks
DeclsDone(po, done, n) ==
    {p \in 1..done : po[p].data = "declare_const" /\ NameOf(po[p]) = n}

\* C3: at each point of the pass a name declared d > 0 times so far has
\* d - 1 "redefined" diagnostics, and the constant table maps exactly the
\* declared names, each to the value of its latest declaration.
C3_Redefinition ==
    Resolving =>
        \A po \in {PO} : \A ends \in {StmtEnds(Len(Stmts))} :
        \A n \in Idents :
            LET ds == DeclsDone(po, Len(po) - Len(walk), n)
                d == Cardinality(ds)
            IN
            /\ Count(Redefined(n), errors) = (IF d > 0 THEN d - 1 ELSE 0)
            /\ n \in Keys(constants) <=> d > 0
            /\ d > 0 =>
                 LET p == CHOOSE p \in ds : \A q \in ds : q <= p
                 IN  DictGet(constants, n) = ExpEnv(StmtOf(ends, p))[n]

\* a name has been declared three times, the third time with another value
\* than the first
C3_Witness ==
    /\ Resolved
    /\ Len(Stmts) = 3
    /\ \E n \in Idents :
          /\ \A j \in 1..3 : Declares(j, n)
          /\ Count(Redefined(n), errors) = 2
          /\ ExpEnv(1)[n] # ExpEnv(3)[n]
          /\ DictGet(constants, n) = ExpEnv(3)[n]

\* the lines of t, each ended by a newline
RECURSIVE Lines(_)
Lines(t) ==
    IF t = <<>> THEN <<>>
    ELSE LET n == CHOOSE n \in 1..Len(t) :
                     t[n] = "\n" /\ \A j \in 1..(n - 1) : t[j] # "\n"
         IN  <<SubSeq(t, 1, n - 1)>> \o Lines(SubSeq(t, n + 1, Len(t)))

\* C4: a run that has ended has written to standard output exactly when it
\* exits with 0, and it exits with 0 exactly when the text was parsed and
\* no diagnostic was recorded; with diagnostics it exits with 1, standard
\* error holds the line "Error: <message>" of each in order, and nothing is
\* ever written to standard output.
C4_OutputIffClean ==
    /\ errors # <<>> => stdout = <<>>
    /\ pc = "exit" =>
         /\ stdout # <<>> <=> exitcode = 0
         /\ exitcode = 0 <=> (tree # NoTree /\ errors = <<>>)
         /\ exitcode = 0 => stdout = to_toml(result.items, 0) \o <<"\n">>
         /\ errors # <<>> =>
              /\ exitcode = 1
              /\ Lines(stderr) = [j \in 1..Len(errors) |-> <<"Error: ">> \o errors[j]]

\* a run has ended with two diagnostics
C4_Witness ==
    pc = "exit" /\ Len(errors) >= 2 /\ exitcode = 1 /\ Len(Lines(stderr)) = Len(errors)

\* port = 8 / [db] /   host = 1
ExampleToml ==
    << "port", " = ", "8", "\n", "[", "db", "]", "\n",
       "  ", "host", " = ", "1", "\n" >>

SyntaxErrorLine == <<"Syntax error: ", "<e>", "\n">>

\* C5 as stated: the example with a semicolon after each entry is parsed,
\* has no diagnostics and gives the three TOML lines with exit code 0
C5_AsStated ==
    (pc = "exit" /\ text = ExampleOk) =>
        /\ tree # NoTree /\ errors = <<>>
        /\ exitcode = 0 /\ stdout = ExampleToml

\* C5: the example without the semicolons after its entries is parsed, has
\* no diagnostics and gives the three TOML lines with exit code 0; as
\* written, with those semicolons, it is a syntax error with exit code 1.
C5_EndToEnd ==
    /\ (pc = "exit" /\ text = ExampleOkPlain) =>
          /\ tree # NoTree /\ errors = <<>>
          /\ exitcode = 0 /\ stdout = ExampleToml /\ stderr = <<>>
    /\ (pc = "exit" /\ text = ExampleOk) =>
          /\ tree = NoTree /\ errors = <<>>
          /\ exitcode = 1 /\ stdout = <<>> /\ stderr = SyntaxErrorLine

\* the example without the semicolons has been compiled
C5_Witness == pc = "exit" /\ text = ExampleOkPlain /\ exitcode = 0

UndefinedMissingLine ==
    <<"Error: ", "Undefined constant '", "missing", "'", "\n">>

\* C6 as stated: x = .(missing).; reaches the resolver and ends with the
\* line of the undefined constant, exit code 1 and no output
C6_AsStated ==
    (pc = "exit" /\ text = ExampleFail) =>
        /\ tree # NoTree /\ errors = <<Undefined("missing")>>
        /\ exitcode = 1 /\ stderr = UndefinedMissingLine /\ stdout = <<>>

\* C6: x = .(missing). reaches the resolver and ends with the line of the
\* undefined constant, exit code 1 and no output; with the semicolon after
\* it the run ends with a syntax error, exit code 1 and no output.
C6_EndToEndFailure ==
    /\ (pc = "exit" /\ text = ExampleFailPlain) =>
          /\ tree # NoTree /\ errors = <<Undefined("missing")>>
          /\ exitcode = 1 /\ stderr = UndefinedMissingLine /\ stdout = <<>>
    /\ (pc = "exit" /\ text = ExampleFail) =>
          /\ tree = NoTree /\ errors = <<>>
          /\ exitcode = 1 /\ stderr = SyntaxErrorLine /\ stdout = <<>>

\* the reference to the missing constant has been reported
C6_Witness ==
    pc = "exit" /\ text = ExampleFailPlain /\ stderr = UndefinedMissingLine

RECURSIVE AllKeys(_)
\* the keys of the table v and of the tables in it
AllKeys(v) ==
    IF v.kind # "dict" THEN {}
    ELSE Keys(v.items) \cup UNION {AllKeys(v.items[j].v) : j \in 1..Len(v.items)}

\* C7: a declaration returns nothing to the table that is being built; the
\* keys of the resolved root table are the keys of the top-level entries,
\* and every key of a table in it is the key of some entry of the program.
C7_ConstantsNotKeys ==
    Resolving =>
        \A po \in {PO} :
        LET done == Len(po) - Len(walk) IN
        /\ (pc = "transform" /\ done >= 1 /\ po[done].data = "declare_const")
              => stack[Len(stack)] = None
        /\ Resolved =>
              /\ Keys(result.items)
                   = {NameOf(Stmts[j]) : j \in {h \in 1..Len(Stmts) :
                                                   Stmts[h].data = "dict_item"}}
              /\ AllKeys(result)
                   \subseteq {NameOf(po[p]) : p \in {q \in 1..Len(po) :
                                                   po[q].data = "dict_item"}}

\* a program with an entry and with a declared name that is no key
C7_Witness ==
    /\ Resolved
    /\ result.items # <<>>
    /\ \E j \in 1..Len(Stmts) :
          /\ Stmts[j].data = "declare_const"
          /\ NameOf(Stmts[j]) \notin AllKeys(result)
          /\ NameOf(Stmts[j]) \in Keys(constants)

\* the root table that the top-level entries stand for
ExpRoot ==
    LET IsEntry(j) == Stmts[j].data = "dict_item"
        First(j) == \A h \in 1..(j - 1) :
                        IsEntry(h) => NameOf(Stmts[h]) # NameOf(Stmts[j])
        Last(k) == CHOOSE j \in 1..Len(Stmts) :
                      /\ IsEntry(j) /\ NameOf(Stmts[j]) = k
                      /\ \A h \in (j + 1)..Len(Stmts) :
                            IsEntry(h) => NameOf(Stmts[h]) # k
        RECURSIVE From(_)
        From(j) ==
            IF j > Len(Stmts) THEN <<>>
            ELSE (IF IsEntry(j) /\ First(j)
                  THEN LET l == Last(NameOf(Stmts[j])) IN
                       <<[k |-> NameOf(Stmts[j]),
                          v |-> ExpValue(ValueOf(Stmts[l]), ExpEnv(l - 1))]>>
                  ELSE <<>>) \o From(j + 1)
    IN  Dict(From(1))

\* C8: a nested table just built, and the root table once the program is
\* resolved, hold each key once, at the place of its first entry among the
\* keys and with the value of its last entry.
C8_LastValueFirstPlace ==
    Resolving =>
        \A po \in {PO} : \A ends \in {StmtEnds(Len(Stmts))} :
        LET done == Len(po) - Len(walk) IN
        /\ (pc = "transform" /\ done >= 1 /\ po[done].data = "make_dict")
              => stack[Len(stack)]
                   = ExpValue(po[done], ExpEnv(StmtOf(ends, done) - 1))
        /\ Resolved => result = ExpRoot

\* a nested table with the entries a, b, a has been built: a comes first and
\* has the value of its second entry
C8_Witness ==
    /\ Resolved
    /\ \E j \in 1..Len(result.items) :
          LET t == result.items[j].v IN
          /\ t.kind = "dict"
          /\ Len(t.items) = 2
          /\ t.items[1].k = "a" /\ t.items[2].k = "b"
          /\ t.items[1].v = PyInt(3)
    /\ Count(Duplicate("a"), errors) = 1

RECURSIVE ExpLines(_, _)
\* the lines that the table items stands for at nesting depth d
ExpLines(items, d) ==
    IF items = <<>> THEN <<>>
    ELSE LET e == Head(items)
             pad == [j \in 1..d |-> "  "]
         IN  (IF e.v.kind = "dict"
              THEN <<pad \o <<"[", e.k, "]">>>> \o ExpLines(e.v.items, d + 1)
              ELSE <<pad \o <<e.k, " = ">> \o Dec(e.v.n)>>)
             \o ExpLines(Tail(items), d)

RECURSIVE JoinLines(_)
JoinLines(ls) ==
    IF ls = <<>> THEN <<>>
    ELSE Head(ls) \o (IF Len(ls) > 1 THEN <<"\n">> ELSE <<>>) \o JoinLines(Tail(ls))

\* the text that print wrote, without the newline that print adds
Printed == SubSeq(stdout, 1, Len(stdout) - 1)

\* C9: the text written for a resolved table is, in the order of the table,
\* the line "key = <decimal>" of each integer entry and the line "[key]" of
\* each table entry followed by the lines of that table, each line after
\* two blanks per level of nesting.
C9_Layout ==
    (pc = "exit" /\ exitcode = 0) =>
        Printed = JoinLines(ExpLines(result.items, 0))

RECURSIVE HasEmptyTable(_)
\* some table in the table v is empty
HasEmptyTable(v) ==
    /\ v.kind = "dict"
    /\ \E j \in 1..Len(v.items) :
          /\ v.items[j].v.kind = "dict"
          /\ (v.items[j].v.items = <<>> \/ HasEmptyTable(v.items[j].v))

\* C9 for the tables in which no nested table is empty
C9_LayoutNoEmptyTable ==
    (pc = "exit" /\ exitcode = 0 /\ ~HasEmptyTable(result)) =>
        Printed = JoinLines(ExpLines(result.items, 0))

\* C10: the text written for a resolved table does not end with a newline
\* and has no empty line.
C10_NoEmptyLine ==
    (pc = "exit" /\ exitcode = 0) =>
        /\ Printed # <<>> => (Printed[1] # "\n" /\ Printed[Len(Printed)] # "\n")
        /\ \A j \in 1..(Len(Printed) - 1) :
              ~(Printed[j] = "\n" /\ Printed[j + 1] = "\n")

\* C10 for the tables in which no nested table is empty
C10_NoEmptyLineNoEmptyTable ==
    (pc = "exit" /\ exitcode = 0 /\ ~HasEmptyTable(result)) =>
        /\ Printed # <<>> => (Printed[1] # "\n" /\ Printed[Len(Printed)] # "\n")
        /\ \A j \in 1..(Len(Printed) - 1) :
              ~(Printed[j] = "\n" /\ Printed[j + 1] = "\n")

\* the pass has not stopped early: while it runs a callback is due, and
\* when it has returned no callback is left
PassCompletes ==
    /\ pc = "transform" =>
          /\ walk # <<>>
          /\ Node.data \in {"number", "use_const", "declare_const",
                            "dict_item", "make_dict", "start"}
    /\ Resolved => walk = <<>> /\ stack = <<>>

\* the references to n, anywhere in the program, that no earlier statement
\* declares
UndefinedRefs(po, ends, n) ==
    {p \in 1..Len(po) : /\ po[p].data = "use_const" /\ NameOf(po[p]) = n
                        /\ ~DeclaredBefore(n, StmtOf(ends, p))}

\* C11: the pass runs to its end whatever it records, and a resolved
\* program with a diagnostic has every violation of the program recorded:
\* one "Undefined constant" per reference to a name not declared before,
\* one "redefined" per declaration of a name after its first, and one
\* "Duplicate key" per repeat of a key in the root table or a nested table.
C11_AllRecorded ==
    /\ PassCompletes
    /\ (Resolved /\ errors # <<>>) =>
          \A po \in {PO} : \A ends \in {StmtEnds(Len(Stmts))} :
          \A n \in Idents :
             /\ Count(Undefined(n), errors)
                  = Cardinality(UndefinedRefs(po, ends, n))
             /\ Count(Redefined(n), errors)
                  = (LET d == Cardinality(DeclsDone(po, Len(po), n))
                     IN  IF d > 0 THEN d - 1 ELSE 0)
             /\ Count(Duplicate(n), errors)
                  = Repeats(TopEntries, n) + NestedRepeats(po, Len(po), n)

\* C11 without the repeats of a key among the top-level entries
C11_AllButRootKeys ==
    /\ PassCompletes
    /\ (Resolved /\ errors # <<>>) =>
          \A po \in {PO} : \A ends \in {StmtEnds(Len(Stmts))} :
          \A n \in Idents :
             /\ Count(Undefined(n), errors)
                  = Cardinality(UndefinedRefs(po, ends, n))
             /\ Count(Redefined(n), errors)
                  = (LET d == Cardinality(DeclsDone(po, Len(po), n))
                     IN  IF d > 0 THEN d - 1 ELSE 0)
             /\ Count(Duplicate(n), errors) = NestedRepeats(po, Len(po), n)

\* a key is repeated at the top level after a diagnostic was recorded, and
\* the pass has returned
C11_RootRepeatAfterDiagnostic ==
    /\ Resolved /\ errors # <<>>
    /\ \E k \in Idents : Repeats(TopEntries, k) > 0

\* C12: for a text that is no sentence of the grammar no callback of the
\* resolver is ever called (no tree, no constants, no diagnostics, no
\* values), nothing is written to standard output, and the run ends with
\* exit code 1 and "Syntax error: <e>" alone on standard error, <e> the
\* text of the parser's exception; no other run ends with that report.
C12_SyntaxErrorExclusive ==
    \A parsed \in {Parse(text).ok} :
    /\ ~parsed =>
          /\ pc \in {"parse", "exit"}
          /\ tree = NoTree /\ walk = <<>> /\ stack = <<>>
          /\ constants = <<>> /\ errors = <<>> /\ result = None
          /\ stdout = <<>>
          /\ pc = "parse" => stderr = <<>> /\ exitcode = -1
          /\ pc = "exit" => stderr = SyntaxErrorLine /\ exitcode = 1
    /\ (pc = "exit" /\ stderr = SyntaxErrorLine) => ~parsed

\* a text in which a redefinition and an undefined reference stand before
\* the syntax error has ended with the syntax error alone
C12_Witness ==
    /\ pc = "exit" /\ text = ExampleBadLiteral
    /\ stderr = SyntaxErrorLine /\ exitcode = 1 /\ errors = <<>>

\* the binary digits of the text, in order
TextDigits == SelectSeq(text, LAMBDA c : c \in BinDigit)

RECURSIVE Ints(_)
\* the integers of the value v and of the tables in it
Ints(v) ==
    IF v.kind = "int" THEN {v.n}
    ELSE IF v.kind = "dict"
         THEN UNION {Ints(v.items[j].v) : j \in 1..Len(v.items)}
         ELSE {}

\* C13: in the run on a program whose one literal is 0b<digits> or
\* 0B<digits>, the literal resolves to the integer that <digits> writes in
\* base 2, which is not negative: number returns it, the constant table and
\* the resolved table hold nothing else, and it is what is printed; 101
\* gives 5, and so does 00101.
C13_BinaryValue ==
    \A n \in {BitsValue(TextDigits)} :
    /\ n >= 0
    /\ TextDigits \in {<<"1", "0", "1">>, <<"0", "0", "1", "0", "1">>} => n = 5
    /\ (pc = "transform" /\ tree # NoTree
          /\ Len(PO) - Len(walk) = 1) => stack = <<PyInt(n)>>
    /\ \A j \in 1..Len(constants) : constants[j].v = PyInt(n)
    /\ Resolved => errors = <<>> /\ Ints(result) = {n}
    /\ pc = "exit" =>
          /\ exitcode = 0
          /\ SubSeq(stdout, Len(stdout) - Len(Dec(n)), Len(stdout))
                = Dec(n) \o <<"\n">>

\* 0B00101 has been resolved to 5 and printed
C13_Witness ==
    /\ pc = "exit"
    /\ text = <<"x", "=", "0B", "0", "0", "1", "0", "1">>
    /\ result = Dict(<<[k |-> "x", v |-> PyInt(5)]>>)
    /\ stdout = <<"x", " = ", "5", "\n">>

RECURSIVE ValueErrors(_, _, _)
\* The diagnostics of the value expression v when the constants are env, in
\* order.  Each entry of a table gives the diagnostics of its value; the
\* "Duplicate key" of an entry that repeats a key comes right after those
\* of its own value when late is FALSE (the entries are taken one after
\* another), and after those of all the entries of the table when late is
\* TRUE.
ValueErrors(v, env, late) ==
    CASE v.data = "number" -> <<>>
      [] v.data = "use_const" ->
            IF env[NameOf(v)] = Absent THEN <<Undefined(NameOf(v))>> ELSE <<>>
      [] v.data = "make_dict" ->
            LET es == v.children
                Dup(j) == IF \E h \in 1..(j - 1) : NameOf(es[h]) = NameOf(es[j])
                          THEN <<Duplicate(NameOf(es[j]))>> ELSE <<>>
                RECURSIVE Walk(_), Dups(_)
                Walk(j) == IF j > Len(es) THEN <<>>
                           ELSE ValueErrors(ValueOf(es[j]), env, late)
                                \o (IF late THEN <<>> ELSE Dup(j)) \o Walk(j + 1)
                Dups(j) == IF j > Len(es) THEN <<>> ELSE Dup(j) \o Dups(j + 1)
            IN  Walk(1) \o (IF late THEN Dups(1) ELSE <<>>)

RECURSIVE ProgramErrors(_, _)
\* the diagnostics of the first i statements, statement after statement:
\* those of the statement's value, then "redefined" for a declaration of a
\* name declared before (a repeated top-level key has no diagnostic)
ProgramErrors(i, late) ==
    IF i = 0 THEN <<>>
    ELSE ProgramErrors(i - 1, late)
         \o ValueErrors(ValueOf(Stmts[i]), ExpEnv(i - 1), late)
         \o (IF Stmts[i].data = "declare_const"
                  /\ DeclaredBefore(NameOf(Stmts[i]), i)
             THEN <<Redefined(NameOf(Stmts[i]))>> ELSE <<>>)

\* C14: the diagnostics of a resolved program stand in the order of the
\* left-to-right walk: statement after statement, and in a table entry after
\* entry, the "Duplicate key" of an entry before every diagnostic of the
\* values of the later entries of that table; they are printed in that order.
C14_WalkOrder ==
    /\ Resolved => errors = ProgramErrors(Len(Stmts), FALSE)
    /\ (pc = "exit" /\ errors # <<>>) =>
          Lines(stderr) = [j \in 1..Len(errors) |-> <<"Error: ">> \o errors[j]]

\* C14 with the "Duplicate key" diagnostics of a table after the diagnostics
\* of the values of all its entries
C14_CallOrder ==
    /\ Resolved => errors = ProgramErrors(Len(Stmts), TRUE)
    /\ (pc = "exit" /\ errors # <<>>) =>
          Lines(stderr) = [j \in 1..Len(errors) |-> <<"Error: ">> \o errors[j]]

\* a table with a repeated key and a later entry whose value is an undefined
\* reference has been resolved
C14_DuplicateBeforeLaterEntry ==
    /\ Resolved
    /\ text = ExampleOrder
    /\ Len(errors) = 2

RECURSIVE Unresolved(_)
\* the value v is None, or holds None at some depth
Unresolved(v) ==
    CASE v.kind = "none" -> TRUE
      [] v.kind = "int" -> FALSE
      [] v.kind = "tuple" -> Unresolved(v.v)
      [] v.kind = "dict" -> \E j \in 1..Len(v.items) : Unresolved(v.items[j].v)

\* None stands for a reference that failed in the constant table, in an
\* entry or a table under construction, as the value that a reference has
\* just yielded, or in the root table
SomeUnresolved ==
    \/ \E j \in 1..Len(constants) : Unresolved(constants[j].v)
    \/ \E j \in 1..Len(stack) :
          stack[j].kind \in {"tuple", "dict"} /\ Unresolved(stack[j])
    \/ /\ pc = "transform" /\ stack # <<>> /\ stack[Len(stack)] = None
       /\ \A po \in {PO} : po[Len(po) - Len(walk)].data = "use_const"
    \/ result.kind = "dict" /\ Unresolved(result)

\* errs is errs2 or a beginning of it
IsPrefix(errs, errs2) ==
    Len(errs) <= Len(errs2) /\ SubSeq(errs2, 1, Len(errs)) = errs

\* no diagnostic is recorded where None stands for a failed reference
SilentUnresolved == SomeUnresolved /\ errors = <<>>

\* C15: every step of a run leaves the recorded diagnostics in place and at
\* most adds to their end; in every state in which None stands for a
\* failed reference anywhere (constant table, entries and tables under
\* construction, root table, at any depth) a diagnostic is recorded; and
\* the table that is printed holds no None.
C15_AppendOnlyNoSilentUnresolved ==
    /\ [][IsPrefix(errors, errors')]_vars
    /\ [](~SilentUnresolved)
    /\ []((pc = "exit" /\ exitcode = 0) =>
            /\ ~Unresolved(result)
            /\ \A j \in 1..Len(stdout) : stdout[j] # "None")

\* a constant bound to None has been copied into a nested table of the root
\* table, with the one diagnostic of the failed reference
C15_Witness ==
    /\ Resolved
    /\ \E j \in 1..Len(constants) : constants[j].v = None
    /\ \E j \in 1..Len(result.items) :
          /\ result.items[j].v.kind = "dict"
          /\ Unresolved(result.items[j].v)
    /\ Len(errors) = 1

\* the step is the call of the callback of a node named d
Calls(d) == pc = "transform" /\ walk # <<>> /\ Node.data = d /\ walk' = Tail(walk)

\* C16: a declaration binds its name to the value of its expression even
\* when that value is None, and records "redefined" exactly when the name
\* was bound before, to None or not; a reference to a bound name yields the
\* bound value, None included, and records nothing, and a reference to a
\* name that is not bound yields None and records exactly one "Undefined
\* constant".  For  x: .(y).; k = .(x). x: 0b1;  the diagnostics are the
\* undefined y and the redefined x, and k is None.
C16_UnresolvedConstantIsBound ==
    /\ [][ /\ Calls("declare_const") =>
                LET n == NameOf(Node) IN
                /\ n \in Keys(constants')
                /\ DictGet(constants', n) = stack[Len(stack)]
                /\ errors' = IF n \in Keys(constants)
                             THEN Append(errors, Redefined(n)) ELSE errors
           /\ Calls("use_const") =>
                LET n == NameOf(Node) IN
                /\ constants' = constants
                /\ n \in Keys(constants) =>
                      /\ errors' = errors
                      /\ stack'[Len(stack')] = DictGet(constants, n)
                /\ n \notin Keys(constants) =>
                      /\ errors' = Append(errors, Undefined(n))
                      /\ stack'[Len(stack')] = None ]_vars
    /\ []((Resolved /\ text = ExampleUnresolved) =>
            /\ errors = <<Undefined("y"), Redefined("x")>>
            /\ result = Dict(<<[k |-> "k", v |-> None]>>)
            /\ constants = <<[k |-> "x", v |-> PyInt(1)]>>)

\* x has been declared with the undefined y, referred to and redeclared
C16_Witness ==
    /\ pc = "exit" /\ text = ExampleUnresolved
    /\ errors = <<Undefined("y"), Redefined("x")>>
    /\ result = Dict(<<[k |-> "k", v |-> None]>>)

\* the text t with the atom c put in after place p
InsertAfter(t, p, c) == SubSeq(t, 1, p) \o <<c>> \o SubSeq(t, p + 1, Len(t))

\* the text t without its atom at place p
RemoveAt(t, p) == SubSeq(t, 1, p - 1) \o SubSeq(t, p + 1, Len(t))

\* a comma follows place p of the text
CommaAfter(p) == p < Len(text) /\ text[p + 1] = ","

\* the text with the comma after place p taken out if there is one, and
\* with one put in if there is none
ToggleComma(p) ==
    IF CommaAfter(p) THEN RemoveAt(text, p + 1) ELSE InsertAfter(text, p, ",")

\* C17: for a program that has been parsed and resolved, and for each of
\* its entries, top-level or nested (there is one value end per entry):
\* the program with the comma after that entry's value taken out, or put
\* in where there was none, is accepted too, and the transformer gives the
\* same table and the same diagnostics for it; and the program with any
\* other punctuation mark, or a second comma, put in right after the value
\* is not accepted.
C17_CommaNoEffect ==
    pc = "check" =>
        \A ends \in {EntryEnds(text)} :
        /\ Transform(tree) = [result |-> result, errors |-> errors]
        /\ Cardinality(ends)
             = Cardinality({q \in 1..Len(PO) : PO[q].data = "dict_item"})
        /\ \A p \in ends :
             /\ \A r \in {Parse(ToggleComma(p))} :
                   /\ r.ok
                   /\ Transform(r.tree) = [result |-> result, errors |-> errors]
             /\ \A c \in (Punct \ {","}) \cup (IF CommaAfter(p) THEN {","} ELSE {}) :
                   ~Parse(InsertAfter(text, p, c)).ok

\* a program with a diagnostic, an entry in a nested table that a comma
\* follows and a top-level entry that none follows has been resolved
C17_Witness ==
    /\ pc = "check" /\ errors # <<>>
    /\ \E p \in EntryEnds(text) : \E q \in EntryEnds(text) :
          /\ CommaAfter(p) /\ ~CommaAfter(q)
          /\ p < q /\ text[q] = ")"

====
